---- MODULE Spec2Model ----
(***************************************************************************)
(* Inactivity-escalation scheduler of the group initiative-dialogue plugin *)
(* (GroupInitiativeDialogueCore, InitiativeDialogueForGroup, DataLoader).  *)
(*                                                                         *)
(* Python dictionaries are functions whose DOMAIN is the set of keys.      *)
(* Time is kept relative to the present: Now is the current instant, a     *)
(* stored timestamp t is Now - t units old, and the passing of one unit    *)
(* (Advance) moves every stored timestamp one unit into the past.          *)
(* Timestamps MaxAge or more units old are not told apart.  The local hour *)
(* of the wall clock is `hour`.                                            *)
(* Coroutines are split at the awaits at which they really suspend; the    *)
(* code between two such awaits is one atomic action (asyncio runs one     *)
(* coroutine at a time).                                                   *)
(***************************************************************************)
EXTENDS Integers, FiniteSets, Sequences, Bags, TLC

\* ------------------------------------------------------------------------
\* Configuration (GroupInitiativeDialogueCore.__init__)
\* ------------------------------------------------------------------------
inactive_time_seconds == 1

max_consecutive_messages == 2

activity_start_hour == 8

activity_end_hour == 23

whitelist_groups == {"g1"}

\* ------------------------------------------------------------------------
\* Bounds of the model
\* ------------------------------------------------------------------------
MaxTasks == 2

Groups == {"g1", "g2"}

\* The conversation and channel references the host reports for a group.
ConvIds(g) == IF g = "g1" THEN {"c1", "c2"} ELSE {"c3"}

Origins(g) == IF g = "g1" THEN {"u1"} ELSE {"u2"}

Hours == {8, 23}

\* The relative time axis is 0..MaxAge: the scanner's inactivity test is the
\* only reader of a timestamp, and it does not tell apart two timestamps that
\* are both inactive_time_seconds or more old.
MaxAge == inactive_time_seconds

\* The present on the relative time axis.
Now == MaxAge

VARIABLES
    group_records,               \* group_id -> [timestamp, conversation_id, unified_msg_origin]
    consecutive_message_count,   \* group_id -> count
    last_initiative_types,       \* group_id -> [count, time_period, timestamp]
    last_initiative_messages,    \* group_id -> [timestamp, conversation_id, unified_msg_origin]
    groups_received_initiative,  \* set of group_id
    whitelist_enabled,           \* configuration, fixed per process
    time_limit_enabled,          \* configuration, fixed per process
    tasks,                       \* bag of dispatches held by the task scheduler
    disk,                        \* <<>> while no snapshot file exists, else <<snapshot>>
    hour,                        \* local hour of the wall clock
    last,                        \* history: the step taken last
    scheduled,                   \* history: dispatches scheduled per group since its
                                 \* activity record was written last (saturates at 2)
    order,                       \* the keys of group_records in the dictionary's order
    scanner,                     \* inactive_check_task: "running", "failed", "cancelled"
    saver,                       \* save_data_task: "running", "cancelled"
    io,                          \* history: what the last step did with the snapshot file
    seen,                        \* history: the groups whose genuine message was handled
    generated,                   \* history: message generations begun per group since its
                                 \* last genuine message (saturates above the maximum)
    scan,                        \* where the scanner is: asleep between two ticks, or
                                 \* suspended in a tick at await schedule_task
    prompt                       \* the inputs and the result of one prompt selection

stores == <<group_records, consecutive_message_count, last_initiative_types,
            last_initiative_messages, groups_received_initiative>>

config == <<whitelist_enabled, time_limit_enabled>>

loops == <<scanner, saver>>

ghosts == <<seen, generated>>

aux == <<scan, prompt>>

vars == <<group_records, consecutive_message_count, last_initiative_types,
          last_initiative_messages, groups_received_initiative,
          whitelist_enabled, time_limit_enabled, tasks, disk, hour,
          last, scheduled, order, scanner, saver, io, seen, generated,
          scan, prompt>>

\* ------------------------------------------------------------------------
\* Dictionary helpers
\* ------------------------------------------------------------------------
EmptyDict == <<>>

Get(d, k, default) == IF k \in DOMAIN d THEN d[k] ELSE default

Put(d, k, v) == [x \in (DOMAIN d) \cup {k} |-> IF x = k THEN v ELSE d[x]]

Min(a, b) == IF a < b THEN a ELSE b

Range(seq) == { seq[i] : i \in DOMAIN seq }

\* The order of a dictionary's keys after a step that removed keys or added
\* one: a removed key leaves the order, a new key goes to its end, and a key
\* whose value was replaced keeps its place.
KeysAfter(ord, d) ==
    LET kept == SelectSeq(ord, LAMBDA k : k \in DOMAIN d)
        new == (DOMAIN d) \ Range(ord)
    IN  IF new = {} THEN kept ELSE Append(kept, CHOOSE k \in new : TRUE)

\* The history of a step: the operation, its group, its boolean input or
\* outcome, and the group's consecutive_message_count before the step.
Step(op, g, flag, prev) == [op |-> op, group_id |-> g, flag |-> flag, prev |-> prev]

\* ------------------------------------------------------------------------
\* Persistence (DataLoader)
\* ------------------------------------------------------------------------
\* datetime.isoformat(): the textual form of a timestamp.
isoformat(t) == [iso |-> t]

\* One record of a store with its datetime values turned to text; the other
\* values are copied.
PrepareRecord(r) ==
    [k \in DOMAIN r |-> IF k = "timestamp" THEN isoformat(r[k]) ELSE r[k]]

\* DataLoader._prepare_records_for_save on a store of records.
prepare_records_for_save(records) ==
    [g \in DOMAIN records |-> PrepareRecord(records[g])]

\* Mutant: the document is written without the escalation counts.
DataToSaveNoCounts(gr, ord, lim, gri, cmc, lit) ==
    [group_records |-> prepare_records_for_save(gr),
     keys |-> ord,
     last_initiative_messages |-> prepare_records_for_save(lim),
     groups_received_initiative |-> gri,
     consecutive_message_count |-> <<>>,
     last_initiative_types |-> <<>>,
     complete |-> TRUE]

\* The document save_data_to_storage writes from the core's stores.  The text
\* of a JSON object lists its keys in the dictionary's order: keys is that
\* order for group_records.  complete: the text was written to its end.
DataToSave(gr, ord, lim, gri, cmc, lit) ==
    [group_records |-> prepare_records_for_save(gr),
     keys |-> ord,
     last_initiative_messages |-> prepare_records_for_save(lim),
     groups_received_initiative |-> gri,
     consecutive_message_count |-> cmc,
     last_initiative_types |-> prepare_records_for_save(lit),
     complete |-> TRUE]

\* What is left of a file that open(..., "w") has truncated when json.dump
\* does not write the text to its end.
TornFile == [DataToSave(<<>>, <<>>, <<>>, {}, <<>>, <<>>) EXCEPT !.complete = FALSE]

\* The ways a save ends: the file written; the file not opened (it stays as it
\* was); the write failing after the file was opened.
SaveOutcomes == {"written", "refused", "torn"}

\* DataLoader.save_data_to_storage: writes the snapshot of the given stores; an
\* I/O error is logged and swallowed.
save_data_to_storage(outcome, gr, ord, lim, gri, cmc, lit) ==
    /\ disk' = CASE outcome = "written" -> <<DataToSave(gr, ord, lim, gri, cmc, lit)>>
                 [] outcome = "refused" -> disk
                 [] OTHER -> <<TornFile>>
    /\ io' = IF outcome = "written" THEN "saved" ELSE "save_failed"

\* datetime.fromisoformat() accepts the texts isoformat() produces.
IsIsoText(s) == s.iso \in 0..Now

\* Mutant: every stored timestamp becomes the time of loading.
fromisoformat_now(s) == Now

\* The conversion of a stored timestamp: a text that is no ISO time (the
\* ValueError branch) becomes the time of loading.
fromisoformat(s) == IF IsIsoText(s) THEN s.iso ELSE Now

LoadRecord(r) ==
    [k \in DOMAIN r |-> IF k = "timestamp" THEN fromisoformat(r[k]) ELSE r[k]]

LoadRecords(records) == [g \in DOMAIN records |-> LoadRecord(records[g])]

\* A JSON number where an object is expected.
JsonNumber(n) == [number |-> n]

IsJsonNumber(v) == DOMAIN v = {"number"}

\* TRUE when load_data_from_storage raises before it calls set_data: the text
\* is no JSON document.
LoadRaisesBeforeSetData(d) == d # <<>> /\ ~d[1].complete

\* TRUE when set_data raises after its assignments: len() of a number in its
\* log line.
SetDataRaises(d) == d # <<>> /\ d[1].complete /\ IsJsonNumber(d[1].consecutive_message_count)

\* TRUE when set_data is called with the snapshot.
LoadApplies(d) == d # <<>> /\ d[1].complete

\* The stores of a core after the plugin's constructor has built it (its
\* stores are empty) and called load_data_from_storage on the file d.
Loaded(d) ==
    IF LoadApplies(d)
    THEN [group_records |-> LoadRecords(d[1].group_records),
          keys |-> d[1].keys,
          last_initiative_messages |-> LoadRecords(d[1].last_initiative_messages),
          groups_received_initiative |-> d[1].groups_received_initiative,
          consecutive_message_count |-> d[1].consecutive_message_count,
          last_initiative_types |-> LoadRecords(d[1].last_initiative_types)]
    ELSE [group_records |-> EmptyDict,
          keys |-> <<>>,
          last_initiative_messages |-> EmptyDict,
          groups_received_initiative |-> {},
          consecutive_message_count |-> EmptyDict,
          last_initiative_types |-> EmptyDict]

\* What load_data_from_storage reports: its except branch logs the error.
LoadOutcome(d) ==
    IF LoadRaisesBeforeSetData(d) \/ SetDataRaises(d) THEN "load_failed" ELSE "loaded"

\* DataLoader.load_data_from_storage on the file d.
load_data_from_storage(d) ==
    /\ group_records' = Loaded(d).group_records
    /\ order' = Loaded(d).keys
    /\ last_initiative_messages' = Loaded(d).last_initiative_messages
    /\ groups_received_initiative' = Loaded(d).groups_received_initiative
    /\ consecutive_message_count' = Loaded(d).consecutive_message_count
    /\ last_initiative_types' = Loaded(d).last_initiative_types
    /\ io' = LoadOutcome(d)

\* ------------------------------------------------------------------------
\* Policies
\* ------------------------------------------------------------------------
\* Mutant: the scanner does not consult the whitelist.
ScannerIgnoresWhitelist(g) == TRUE

\* The whitelist test of the scanner: TRUE when the group is evaluated further.
ScannerPassesWhitelist(g) == ~(whitelist_enabled /\ g \notin whitelist_groups)

\* The whitelist re-check of the dispatcher: TRUE when the dispatch goes on.
DispatcherPassesWhitelist(g) == ~(whitelist_enabled /\ g \notin whitelist_groups)

\* Mutant: the window is closed at its end, [start, end].
InActivityWindowClosedEnd(h) ==
    ~time_limit_enabled \/ (activity_start_hour <= h /\ h <= activity_end_hour)

\* The time window test of the scanner: TRUE when the tick proceeds.
InActivityWindow(h) ==
    ~time_limit_enabled \/ (activity_start_hour <= h /\ h < activity_end_hour)

\* The time-of-day label of the dispatcher.
TimePeriod(h) ==
    IF 6 <= h /\ h < 8 THEN "morning"
    ELSE IF 8 <= h /\ h < 11 THEN "forenoon"
    ELSE IF 11 <= h /\ h < 13 THEN "lunch"
    ELSE IF 13 <= h /\ h < 17 THEN "afternoon"
    ELSE IF 17 <= h /\ h < 19 THEN "dinner"
    ELSE IF 19 <= h /\ h < 23 THEN "evening"
    ELSE "late_night"

\* Mutant: the scanner skips a group only above the maximum.
ReachedMaxStrict(g) ==
    Get(consecutive_message_count, g, 0) > max_consecutive_messages

\* The scanner's count test: TRUE when the group is skipped as terminal.
ReachedMax(g) ==
    Get(consecutive_message_count, g, 0) >= max_consecutive_messages

\* The scanner's inactivity test on a record of its snapshot.
Inactive(record) == Now - record.timestamp >= inactive_time_seconds

\* record.get("timestamp") of the scanner: a record without one is skipped.
HasTimestamp(record) == "timestamp" \in DOMAIN record

\* The scanner's decision for one group of its snapshot.
ShouldSchedule(g) ==
    /\ g \in DOMAIN group_records
    /\ ScannerPassesWhitelist(g)
    /\ ~ReachedMax(g)
    /\ HasTimestamp(group_records[g])
    /\ Inactive(group_records[g])

\* TRUE when evaluating the group raises: the scanner has decided to schedule
\* and record["conversation_id"] or record["unified_msg_origin"] is a KeyError.
Raises(g) ==
    /\ ShouldSchedule(g)
    /\ \/ "conversation_id" \notin DOMAIN group_records[g]
       \/ "unified_msg_origin" \notin DOMAIN group_records[g]

\* ------------------------------------------------------------------------
\* Task scheduler (TaskManager.schedule_task)
\* ------------------------------------------------------------------------
\* A dispatch the scheduler holds: waiting for its random delay ("delay"), or
\* suspended in generate_and_send_message ("generate") with what it computed.
Task(g, c, u) ==
    [group_id |-> g, conversation_id |-> c, unified_msg_origin |-> u,
     phase |-> "delay", next_count |-> 0, time_period |-> "none"]

\* schedule_task for every group of gs, each with its record's references.
schedule_task(bag, gs) ==
    LET new == { Task(g, group_records[g].conversation_id,
                      group_records[g].unified_msg_origin) : g \in gs }
    IN  bag (+) [t \in new |-> 1]

RemoveTask(bag, t) == bag (-) SetToBag({t})

NumTasksOf(bag, g) ==
    LET ts == { t \in BagToSet(bag) : t.group_id = g }
        RECURSIVE Sum(_)
        Sum(S) == IF S = {} THEN 0
                  ELSE LET t == CHOOSE x \in S : TRUE
                       IN  CopiesIn(t, bag) + Sum(S \ {t})
    IN  Sum(ts)

\* The scanner between two ticks (await asyncio.sleep(30)).
Asleep == [pc |-> "sleep", snapshot |-> <<>>, i |-> 0]

\* No prompt selection is being looked at.
NoPrompt == [max |-> 0, next_count |-> 0, index |-> -1]

\* ------------------------------------------------------------------------
\* Initial state: the plugin constructed with no snapshot file, configured
\* with the whitelist enabled (g1 listed, g2 not) and the time limit enabled
\* ------------------------------------------------------------------------
Init ==
    /\ group_records = EmptyDict
    /\ consecutive_message_count = EmptyDict
    /\ last_initiative_types = EmptyDict
    /\ last_initiative_messages = EmptyDict
    /\ groups_received_initiative = {}
    /\ whitelist_enabled = TRUE
    /\ time_limit_enabled = TRUE
    /\ tasks = EmptyBag
    /\ disk = <<>>
    /\ hour \in Hours
    /\ last = Step("init", "none", FALSE, 0)
    /\ scheduled = [g \in Groups |-> 0]
    /\ order = <<>>
    /\ scanner = "running"
    /\ saver = "running"
    /\ io = "none"
    /\ seen = {}
    /\ generated = [g \in Groups |-> 0]
    /\ scan = Asleep
    /\ prompt = NoPrompt

\* ------------------------------------------------------------------------
\* Clock
\* ------------------------------------------------------------------------
\* A timestamp one unit later.
Older(t) == IF t > 0 THEN t - 1 ELSE 0

AgeRecords(records) ==
    [g \in DOMAIN records |->
        [k \in DOMAIN records[g] |->
            IF k = "timestamp" THEN Older(records[g][k]) ELSE records[g][k]]]

AgeSaved(records) ==
    [g \in DOMAIN records |->
        [k \in DOMAIN records[g] |->
            IF k = "timestamp" /\ IsIsoText(records[g][k])
            THEN isoformat(Older(records[g][k].iso)) ELSE records[g][k]]]

AgeDisk(d) ==
    IF d = <<>> THEN d
    ELSE <<[d[1] EXCEPT !.group_records = AgeSaved(@),
                        !.last_initiative_messages = AgeSaved(@),
                        !.last_initiative_types = AgeSaved(@)]>>

\* One unit of time passes; the hour is any hour of the later instant.
Advance ==
    /\ group_records' = AgeRecords(group_records)
    /\ last_initiative_types' = AgeRecords(last_initiative_types)
    /\ last_initiative_messages' = AgeRecords(last_initiative_messages)
    /\ disk' = AgeDisk(disk)
    /\ hour' \in Hours
    /\ last' = Step("advance", "none", FALSE, 0)
    /\ io' = "none"
    /\ UNCHANGED <<consecutive_message_count, groups_received_initiative,
                   config, tasks, scheduled, order, loops,
                   ghosts, aux>>

\* ------------------------------------------------------------------------
\* Inbound activity (InitiativeDialogueForGroup.on_group_message)
\* ------------------------------------------------------------------------
\* Mutant: a record is written only for a group that has none.
handle_group_message_if_absent(g, conversation_id, unified_msg_origin) ==
    IF g \in DOMAIN group_records THEN group_records
    ELSE Put(group_records, g,
             [timestamp |-> Now, conversation_id |-> conversation_id,
              unified_msg_origin |-> unified_msg_origin])

\* handle_group_message: the activity record written for the event.
handle_group_message(g, conversation_id, unified_msg_origin) ==
    Put(group_records, g,
        [timestamp |-> Now, conversation_id |-> conversation_id,
         unified_msg_origin |-> unified_msg_origin])

\* Mutant: the reset branch leaves the count as it is.
ResetCountKeeps(g) == consecutive_message_count

\* The reset branch taken when the group is marked as having received outreach.
ResetCount(g) == Put(consecutive_message_count, g, 0)

\* Mutant: the reset branch leaves the count field of last_initiative_types.
ResetTypesKeeps(g) == last_initiative_types

ResetTypes(g) ==
    IF g \in DOMAIN last_initiative_types
    THEN [last_initiative_types EXCEPT ![g].count = 0]
    ELSE last_initiative_types

\* Mutant: no message is taken for the bot's own outreach.
IsSysPromptNever(marker) == FALSE

\* TRUE when the message is ignored as the bot's own outreach.
IsSysPrompt(marker) == marker

on_group_message(g, conversation_id, unified_msg_origin, marker, save_ok) ==
    /\ last' = Step("message", g, marker, Get(consecutive_message_count, g, 0))
    /\ IF IsSysPrompt(marker)
       THEN /\ io' = "none"
            /\ UNCHANGED <<stores, disk, scheduled, order, seen>>
       ELSE /\ group_records' = handle_group_message(g, conversation_id, unified_msg_origin)
            /\ seen' = seen \cup {g}
            /\ order' = KeysAfter(order, group_records')
            /\ scheduled' = [scheduled EXCEPT ![g] = 0]
            /\ IF g \in groups_received_initiative
               THEN /\ consecutive_message_count' = ResetCount(g)
                    /\ last_initiative_types' = ResetTypes(g)
                    /\ groups_received_initiative' = groups_received_initiative \ {g}
                    /\ save_data_to_storage(save_ok, group_records', order',
                                            last_initiative_messages,
                                            groups_received_initiative',
                                            consecutive_message_count', last_initiative_types')
               ELSE /\ io' = "none"
                    /\ UNCHANGED <<consecutive_message_count, last_initiative_types,
                                   groups_received_initiative, disk>>
            /\ UNCHANGED last_initiative_messages
    /\ UNCHANGED <<config, tasks, hour, loops, aux>>

\* ------------------------------------------------------------------------
\* Inactivity scanner (_check_inactive_conversations_loop, one tick)
\* ------------------------------------------------------------------------
\* The place in the tick's snapshot, list(self.group_records.items()), of the
\* first group whose evaluation raises; 0 when none does.
FirstRaising ==
    LET raising == { i \in DOMAIN order : Raises(order[i]) }
    IN  IF raising = {} THEN 0
        ELSE CHOOSE i \in raising : \A j \in raising : i <= j

\* The groups the tick evaluates to the end: the exception of a group leaves
\* the for loop and the while loop, which are both inside the one try.
Evaluated ==
    IF FirstRaising = 0 THEN Range(order)
    ELSE { order[i] : i \in 1..(FirstRaising - 1) }

\* The groups of the tick's snapshot for which a dispatch is scheduled.
EligibleGroups == { g \in Evaluated : ShouldSchedule(g) }

\* The scanner task after a tick: an exception ends it ("except Exception"
\* logs and the coroutine returns).
ScannerAfterTick(raised) == IF raised THEN "failed" ELSE "running"

\* Mutant: the scanner leaves the records of the scheduled groups in place.
RemoveScheduledKeeps(gs) == group_records

\* group_records.pop(group_id, None) for every scheduled group.
RemoveScheduled(gs) == [g \in (DOMAIN group_records) \ gs |-> group_records[g]]

\* The tick when await schedule_task returns without suspending the scanner:
\* it runs from its sleep to its next sleep with no other coroutine in
\* between.  tick_begin and tick_resume are the tick when the scanner is
\* suspended at that await.
check_inactive_conversations_tick ==
    /\ scanner = "running"
    /\ scan = Asleep
    /\ last' = Step("tick", "none", InActivityWindow(hour), 0)
    /\ io' = "none"
    /\ IF ~InActivityWindow(hour)
       THEN UNCHANGED <<group_records, tasks, scheduled, order, scanner>>
       ELSE LET gs == EligibleGroups
            IN  /\ BagCardinality(tasks) + Cardinality(gs) <= MaxTasks
                /\ tasks' = schedule_task(tasks, gs)
                /\ group_records' = RemoveScheduled(gs)
                /\ order' = KeysAfter(order, group_records')
                /\ scheduled' = [g \in Groups |->
                                   IF g \in gs THEN Min(scheduled[g] + 1, 2)
                                   ELSE scheduled[g]]
                /\ scanner' = ScannerAfterTick(FirstRaising # 0)
    /\ UNCHANGED <<consecutive_message_count, last_initiative_types,
                   last_initiative_messages, groups_received_initiative,
                   config, disk, hour, saver,
                   ghosts, aux>>

\* ------------------------------------------------------------------------
\* Escalation dispatcher (_send_initiative_message)
\* ------------------------------------------------------------------------
\* The count the dispatcher starts from: last_initiative_types first, then
\* consecutive_message_count.
CurrentCount(g) ==
    IF g \in DOMAIN last_initiative_types
    THEN last_initiative_types[g].count
    ELSE Get(consecutive_message_count, g, 0)

\* Mutant: the overshoot guard is off by one.
ExceedsMaxOffByOne(next_count) == next_count > max_consecutive_messages + 1

\* Mutant: no overshoot guard.
ExceedsMaxNever(next_count) == FALSE

\* The overshoot guard.
ExceedsMax(next_count) == next_count > max_consecutive_messages

\* From the end of the random delay to the await of generate_and_send_message.
send_initiative_message_begin(t) ==
    /\ t \in BagToSet(tasks)
    /\ t.phase = "delay"
    /\ LET g == t.group_id
           next_count == CurrentCount(g) + 1
       IN  IF ~DispatcherPassesWhitelist(g) \/ ExceedsMax(next_count)
           THEN /\ tasks' = RemoveTask(tasks, t)
                /\ last' = Step("dispatch_abort", g, DispatcherPassesWhitelist(g),
                                 Get(consecutive_message_count, g, 0))
           ELSE /\ tasks' = RemoveTask(tasks, t) (+)
                             SetToBag({[t EXCEPT !.phase = "generate",
                                                 !.next_count = next_count,
                                                 !.time_period = TimePeriod(hour)]})
                /\ last' = Step("dispatch_begin", g, TRUE,
                                 Get(consecutive_message_count, g, 0))
    /\ io' = "none"
    /\ UNCHANGED <<stores, config, disk, hour, scheduled, order, loops, seen, aux>>

\* The stores after generate_and_send_message has returned `result`.
CommitCount(t, result) ==
    Put(consecutive_message_count, t.group_id, t.next_count)

CommitTypes(t, result) ==
    Put(last_initiative_types, t.group_id,
        [count |-> t.next_count, time_period |-> t.time_period, timestamp |-> Now])

CommitMessages(t, result) ==
    Put(last_initiative_messages, t.group_id,
        [timestamp |-> Now, conversation_id |-> t.conversation_id,
         unified_msg_origin |-> t.unified_msg_origin])

\* Mutant: the commit does not mark the group as contacted.
CommitReceivedNever(t, result) == groups_received_initiative

CommitReceived(t, result) == groups_received_initiative \cup {t.group_id}

\* Mutant: the dispatcher re-arms at the maximum too.
CommitRecordsAlways(t, result) ==
    Put(group_records, t.group_id,
        [timestamp |-> Now, conversation_id |-> t.conversation_id,
         unified_msg_origin |-> t.unified_msg_origin])

\* Mutant: the dispatcher never re-arms.
CommitRecordsNever(t, result) == group_records

\* Re-arm below the maximum, nothing at the maximum.
CommitRecords(t, result) ==
    IF t.next_count < max_consecutive_messages
    THEN Put(group_records, t.group_id,
             [timestamp |-> Now, conversation_id |-> t.conversation_id,
              unified_msg_origin |-> t.unified_msg_origin])
    ELSE group_records

\* From the return of generate_and_send_message (result: truthy on success,
\* False on failure) to the end of the dispatcher.
send_initiative_message_finish(t, result, save_ok) ==
    /\ t \in BagToSet(tasks)
    /\ t.phase = "generate"
    /\ tasks' = RemoveTask(tasks, t)
    /\ consecutive_message_count' = CommitCount(t, result)
    /\ last_initiative_types' = CommitTypes(t, result)
    /\ last_initiative_messages' = CommitMessages(t, result)
    /\ groups_received_initiative' = CommitReceived(t, result)
    /\ group_records' = CommitRecords(t, result)
    /\ order' = KeysAfter(order, group_records')
    /\ scheduled' = IF t.next_count < max_consecutive_messages
                    THEN [scheduled EXCEPT ![t.group_id] = 0]
                    ELSE scheduled
    /\ save_data_to_storage(save_ok, group_records', order', last_initiative_messages',
                            groups_received_initiative', consecutive_message_count',
                            last_initiative_types')
    /\ last' = Step("dispatch_finish", t.group_id, result,
                     Get(consecutive_message_count, t.group_id, 0))
    /\ UNCHANGED <<config, hour, loops, ghosts, aux>>

\* ------------------------------------------------------------------------
\* Periodic save (DataLoader._periodic_save_data, one round)
\* ------------------------------------------------------------------------
\* Mutant: a failed save ends the loop.
SaverStopsOnFailure(outcome) == IF outcome = "written" THEN "running" ELSE "failed"

\* The save task after a round: save_data_to_storage raises nothing, so the
\* loop goes on to its next sleep whatever the outcome.
SaverAfterSave(outcome) == "running"

periodic_save_data(outcome) ==
    /\ saver = "running"
    /\ save_data_to_storage(outcome, group_records, order, last_initiative_messages,
                            groups_received_initiative, consecutive_message_count,
                            last_initiative_types)
    /\ saver' = SaverAfterSave(outcome)
    /\ last' = Step("periodic_save", "none", outcome = "written", 0)
    /\ UNCHANGED <<stores, order, config, tasks, hour, scheduled, scanner, ghosts, aux>>

\* ------------------------------------------------------------------------
\* Crash and restart (InitiativeDialogueForGroup.__init__ of the new process)
\* ------------------------------------------------------------------------
\* TRUE when the file is the snapshot of the present stores.
DiskIsCurrent ==
    disk = <<DataToSave(group_records, order, last_initiative_messages,
                        groups_received_initiative, consecutive_message_count,
                        last_initiative_types)>>

\* The process ends at any point and is started again: what it held in memory
\* (the stores, the dispatches of the task scheduler) is gone, a new core is
\* built, the snapshot file is loaded and the two loops are started.
restart ==
    /\ load_data_from_storage(disk)
    /\ tasks' = EmptyBag
    /\ scanner' = "running"
    /\ saver' = "running"
    /\ scheduled' = [g \in Groups |-> 0]
    /\ last' = Step("restart", "none", DiskIsCurrent, 0)
    /\ UNCHANGED <<config, disk, hour, ghosts, aux>>

\* ------------------------------------------------------------------------
\* Shutdown (InitiativeDialogueForGroup.terminate)
\* ------------------------------------------------------------------------
\* Mutant: the scanner task is not cancelled.
CancelScannerNoop == scanner

\* stop_checking_inactive_conversations: a task that is not done is cancelled;
\* the CancelledError is raised at the loop's sleep, logged and raised again.
CancelScanner == IF scanner = "running" THEN "cancelled" ELSE scanner

\* terminate up to the cancellation of the save task: the stores are saved,
\* the scanner task is cancelled and awaited, the save task is cancelled.
terminate(outcome) ==
    /\ saver = "running"
    /\ save_data_to_storage(outcome, group_records, order, last_initiative_messages,
                            groups_received_initiative, consecutive_message_count,
                            last_initiative_types)
    /\ scanner' = CancelScanner
    /\ saver' = "cancelling"
    /\ last' = Step("terminate", "none", scanner = "running", 0)
    /\ UNCHANGED <<stores, order, config, tasks, hour, scheduled, ghosts, aux>>

\* The save task receives its CancelledError: it saves once more and ends.
periodic_save_cancelled(outcome) ==
    /\ saver = "cancelling"
    /\ save_data_to_storage(outcome, group_records, order, last_initiative_messages,
                            groups_received_initiative, consecutive_message_count,
                            last_initiative_types)
    /\ saver' = "cancelled"
    /\ last' = Step("save_cancelled", "none", outcome = "written", 0)
    /\ UNCHANGED <<stores, order, config, tasks, hour, scheduled, scanner, ghosts, aux>>

\* ------------------------------------------------------------------------
\* Specification
\* ------------------------------------------------------------------------
\* The snapshot file is writable: every save succeeds.  A failed save changes
\* no store, so the stores behave the same with failing saves.
Message ==
    \E g \in Groups, marker \in BOOLEAN :
        \E c \in ConvIds(g), u \in Origins(g) :
            on_group_message(g, c, u, marker, "written") /\ UNCHANGED generated

Tick == check_inactive_conversations_tick

DispatchBegin ==
    \E t \in BagToSet(tasks) : send_initiative_message_begin(t) /\ UNCHANGED generated

DispatchFinish ==
    \E t \in BagToSet(tasks), result \in BOOLEAN :
        send_initiative_message_finish(t, result, "written")

Next ==
    \/ Advance
    \/ Message
    \/ Tick
    \/ DispatchBegin
    \/ DispatchFinish

Spec == Init /\ [][Next]_vars

\* The scheduling under which the escalation makes progress: time passes and
\* the clock shows an hour inside the activity window again and again, the
\* scanner's sleep ends (asyncio.sleep(30)) at such an hour again and again,
\* and a dispatch the scheduler holds is run (its delay is finite) and its
\* generate_and_send_message returns.
\* The inbound messages are the genuine messages of the whitelisted groups
\* (a marked message and a message of another group change nothing the
\* escalation of a whitelisted group reads).
TickInWindow == InActivityWindow(hour) /\ Tick

GenuineMessage ==
    \E g \in whitelist_groups :
        \E c \in ConvIds(g), u \in Origins(g) :
            on_group_message(g, c, u, FALSE, "written") /\ UNCHANGED generated

NextFair ==
    \/ Advance
    \/ GenuineMessage
    \/ Tick
    \/ DispatchBegin
    \/ DispatchFinish

FairSpec ==
    /\ Init
    /\ [][NextFair]_vars
    /\ WF_vars(Advance /\ InActivityWindow(hour'))
    /\ SF_vars(TickInWindow)
    /\ WF_vars(DispatchBegin)
    /\ WF_vars(DispatchFinish)

\* Persistence: the saves may fail, the periodic save runs, and the process
\* may end at any point and be started again from the snapshot file.  The
\* whitelisted groups write, each in one conversation.
CurrentConv(g) == CHOOSE c \in ConvIds(g) : TRUE

MessageSaving ==
    \E g \in whitelist_groups, o \in SaveOutcomes :
        \E u \in Origins(g) :
            on_group_message(g, CurrentConv(g), u, FALSE, o) /\ UNCHANGED generated

DispatchFinishSaving ==
    \E t \in BagToSet(tasks), result \in BOOLEAN, o \in SaveOutcomes :
        send_initiative_message_finish(t, result, o)

PeriodicSave == \E o \in SaveOutcomes : periodic_save_data(o)

Restart == restart

NextPersist ==
    \/ Advance
    \/ MessageSaving
    \/ Tick
    \/ DispatchBegin
    \/ DispatchFinishSaving
    \/ PeriodicSave
    \/ Restart

SpecPersist == Init /\ [][NextPersist]_vars

\* Loading: the plugin is started on a snapshot file it has not written itself
\* (edited, written by another version, or cut short).  The files are the
\* documents with these values of their members.
OneKey(d) == IF DOMAIN d = {} THEN <<>> ELSE <<CHOOSE k \in DOMAIN d : TRUE>>

NoIsoText == [iso |-> -1]

FileGroupRecords ==
    { EmptyDict,
      "g1" :> [timestamp |-> isoformat(0), conversation_id |-> "c1",
               unified_msg_origin |-> "u1"],
      "g1" :> [timestamp |-> NoIsoText, conversation_id |-> "c1",
               unified_msg_origin |-> "u1"],
      "g2" :> [timestamp |-> isoformat(0), unified_msg_origin |-> "u2"] }

FileMessages ==
    { EmptyDict,
      "g1" :> [timestamp |-> isoformat(0), conversation_id |-> "c1",
               unified_msg_origin |-> "u1"] }

FileCounts == { EmptyDict, "g1" :> 1, JsonNumber(0) }

FileTypes ==
    { EmptyDict,
      "g1" :> [count |-> 1, time_period |-> "forenoon", timestamp |-> isoformat(0)] }

Files ==
    { <<>> } \cup
    { <<[group_records |-> gr, keys |-> OneKey(gr), last_initiative_messages |-> lim,
         groups_received_initiative |-> gri, consecutive_message_count |-> cmc,
         last_initiative_types |-> lit, complete |-> c]>> :
        gr \in FileGroupRecords, lim \in FileMessages, gri \in SUBSET {"g1"},
        cmc \in FileCounts, lit \in FileTypes, c \in BOOLEAN }

\* Before the process is started: nothing in memory, any of the files on disk.
InitLoad ==
    /\ group_records = EmptyDict
    /\ consecutive_message_count = EmptyDict
    /\ last_initiative_types = EmptyDict
    /\ last_initiative_messages = EmptyDict
    /\ groups_received_initiative = {}
    /\ whitelist_enabled = FALSE
    /\ time_limit_enabled = TRUE
    /\ tasks = EmptyBag
    /\ disk \in Files
    /\ hour \in Hours
    /\ last = Step("init", "none", FALSE, 0)
    /\ scheduled = [g \in Groups |-> 0]
    /\ order = <<>>
    /\ scanner = "running"
    /\ saver = "running"
    /\ io = "none"
    /\ seen = {}
    /\ generated = [g \in Groups |-> 0]
    /\ scan = Asleep
    /\ prompt = NoPrompt

SpecLoad == InitLoad /\ [][Restart]_vars

\* Scanning: the whitelist is disabled (the default), the plugin has been
\* started without a snapshot file or on one that holds, for g2, an activity
\* record without a conversation reference, before or after a record of g1;
\* g1 writes; the plugin may be shut down.  The periodic save is left out: it
\* writes the file only, which nothing reads without a restart.
OldRecord(c, u) ==
    [timestamp |-> isoformat(0), conversation_id |-> c, unified_msg_origin |-> u]

Snapshot(gr, keys) ==
    <<[DataToSave(<<>>, keys, <<>>, {}, <<>>, <<>>) EXCEPT !.group_records = gr]>>

StartupFiles ==
    { <<>>,
      Snapshot(("g2" :> [timestamp |-> isoformat(0), unified_msg_origin |-> "u2"])
                   @@ ("g1" :> OldRecord("c1", "u1")), <<"g2", "g1">>),
      Snapshot(("g2" :> [timestamp |-> isoformat(0), unified_msg_origin |-> "u2"])
                   @@ ("g1" :> OldRecord("c1", "u1")), <<"g1", "g2">>) }

InitScan ==
    \E d \in StartupFiles :
        /\ disk = d
        /\ group_records = Loaded(d).group_records
        /\ order = Loaded(d).keys
        /\ consecutive_message_count = Loaded(d).consecutive_message_count
        /\ last_initiative_types = Loaded(d).last_initiative_types
        /\ last_initiative_messages = Loaded(d).last_initiative_messages
        /\ groups_received_initiative = Loaded(d).groups_received_initiative
        /\ io = LoadOutcome(d)
        /\ whitelist_enabled = FALSE
        /\ time_limit_enabled = TRUE
        /\ tasks = EmptyBag
        /\ hour \in Hours
        /\ last = Step("init", "none", FALSE, 0)
        /\ scheduled = [g \in Groups |-> 0]
        /\ scanner = "running"
        /\ saver = "running"
        /\ seen = {}
        /\ generated = [g \in Groups |-> 0]
        /\ scan = Asleep
        /\ prompt = NoPrompt

Terminate == terminate("written")

SaveCancelled == periodic_save_cancelled("written")

NextScan ==
    \/ Advance
    \/ GenuineMessage
    \/ Tick
    \/ DispatchBegin
    \/ DispatchFinish
    \/ Terminate
    \/ SaveCancelled

SpecScan == InitScan /\ [][NextScan]_vars

\* Counting: the environment of FairSpec without its fairness, with the
\* history variable `generated` kept: a genuine message of a group starts its
\* count again, a dispatcher run that goes on to generate_and_send_message
\* adds one.
CountedMessage ==
    \E g \in whitelist_groups :
        \E c \in ConvIds(g), u \in Origins(g) :
            /\ on_group_message(g, c, u, FALSE, "written")
            /\ generated' = [generated EXCEPT ![g] = 0]

CountedDispatchBegin ==
    \E t \in BagToSet(tasks) :
        /\ send_initiative_message_begin(t)
        /\ generated' = IF last'.op = "dispatch_begin"
                        THEN [generated EXCEPT
                                 ![t.group_id] = Min(@ + 1, max_consecutive_messages + 1)]
                        ELSE generated

NextCount ==
    \/ Advance
    \/ CountedMessage
    \/ Tick
    \/ CountedDispatchBegin
    \/ DispatchFinish

SpecCount == Init /\ [][NextCount]_vars

\* Prompt selection: the dispatcher's choice of the prompt, as a function of
\* next_count and max_consecutive_messages.  The dispatcher reaches the choice
\* only with 1 <= next_count <= max_consecutive_messages (the count is at
\* least 0 and the guard has returned above the maximum).
NumPrompts == 10

PromptMaxBound == 8

\* random.randint(a, b): any integer of a..b.
randint(a, b) == a..b

\* The indexes the if/elif chain can draw for next_count under the maximum max.
PromptChoices(next_count, max) ==
    IF next_count = 1 THEN randint(0, 3)
    ELSE IF next_count = 2 THEN randint(4, 5)
    ELSE IF next_count = max THEN randint(8, 9)
    ELSE randint(6, 7)

\* min(prompt_index, len(self.initiative_prompts) - 1)
ClampIndex(prompt_index) == Min(prompt_index, NumPrompts - 1)

select_prompt ==
    /\ prompt.index = -1
    /\ prompt.next_count >= 1
    /\ \E r \in PromptChoices(prompt.next_count, prompt.max) :
           prompt' = [prompt EXCEPT !.index = ClampIndex(r)]
    /\ UNCHANGED <<stores, config, tasks, disk, hour, last, scheduled, order,
                   loops, io, ghosts, scan>>

InitPrompt ==
    /\ group_records = EmptyDict
    /\ consecutive_message_count = EmptyDict
    /\ last_initiative_types = EmptyDict
    /\ last_initiative_messages = EmptyDict
    /\ groups_received_initiative = {}
    /\ whitelist_enabled = TRUE
    /\ time_limit_enabled = TRUE
    /\ tasks = EmptyBag
    /\ disk = <<>>
    /\ hour = activity_start_hour
    /\ last = Step("init", "none", FALSE, 0)
    /\ scheduled = [g \in Groups |-> 0]
    /\ order = <<>>
    /\ scanner = "running"
    /\ saver = "running"
    /\ io = "none"
    /\ seen = {}
    /\ generated = [g \in Groups |-> 0]
    /\ scan = Asleep
    /\ \E max \in 1..PromptMaxBound :
           \E next_count \in 1..max :
               prompt = [max |-> max, next_count |-> next_count, index |-> -1]

SelectPrompt == select_prompt

SpecPrompt == InitPrompt /\ [][SelectPrompt]_vars

\* Suspending scheduler: await self.task_manager.schedule_task(...) lets the
\* event loop run other coroutines before the call returns, so the tick is
\* split at that await.  The scheduler does not block the scanner: the call
\* returns before the dispatch it registers has run, so the dispatch is held
\* from the moment the call returns.  The snapshot
\* list(self.group_records.items()) and `now` are taken once, when the tick
\* starts: an entry keeps the record the dictionary held then.  The whitelist
\* is disabled (the default), both groups write, each in one conversation,
\* the plugin starts without a file, and the run lies within one hour inside
\* the activity window.
TickItems ==
    [i \in 1..Len(order) |->
        [group_id |-> order[i], record |-> group_records[order[i]]]]

\* The scanner's decision for one entry of its snapshot: the whitelist and
\* the count are read when the entry is reached, the record is the entry's.
SnapshotEligible(e) ==
    /\ ScannerPassesWhitelist(e.group_id)
    /\ ~ReachedMax(e.group_id)
    /\ HasTimestamp(e.record)
    /\ Inactive(e.record)

\* The first entry from place `from` on for which schedule_task is called;
\* 0 when the for loop ends without one.
NextEligible(snapshot, from) ==
    LET js == { j \in from..Len(snapshot) : SnapshotEligible(snapshot[j]) }
    IN  IF js = {} THEN 0 ELSE CHOOSE j \in js : \A k \in js : j <= k

\* The scanner suspended in await schedule_task for entry i of its snapshot.
Awaiting(snapshot, i) == [pc |-> "await", snapshot |-> snapshot, i |-> i]

\* The scanner after the entries before place `from` are done.
ScanFrom(snapshot, from) ==
    IF NextEligible(snapshot, from) = 0 THEN Asleep
    ELSE Awaiting(snapshot, NextEligible(snapshot, from))

\* The dispatch schedule_task registers, with the entry's references.
schedule_entry(bag, e) ==
    bag (+) SetToBag({Task(e.group_id, e.record.conversation_id,
                           e.record.unified_msg_origin)})

\* From the end of the sleep to the first call of schedule_task, or to the
\* next sleep when no entry is eligible.
tick_begin ==
    /\ scanner = "running"
    /\ scan = Asleep
    /\ io' = "none"
    /\ last' = Step("tick_begin", "none", InActivityWindow(hour), 0)
    /\ scan' = IF InActivityWindow(hour) THEN ScanFrom(TickItems, 1) ELSE Asleep
    /\ UNCHANGED <<stores, order, config, tasks, disk, hour, scheduled, loops,
                   ghosts, prompt>>

\* From the return of await schedule_task to the next call of schedule_task,
\* or to the next sleep: group_records.pop(group_id, None), then the rest of
\* the snapshot.
tick_resume ==
    /\ scanner = "running"
    /\ scan.pc = "await"
    /\ BagCardinality(tasks) < MaxTasks
    /\ io' = "none"
    /\ LET e == scan.snapshot[scan.i]
       IN  /\ tasks' = schedule_entry(tasks, e)
           /\ group_records' = RemoveScheduled({e.group_id})
           /\ order' = KeysAfter(order, group_records')
           /\ scheduled' = [scheduled EXCEPT ![e.group_id] = Min(@ + 1, 2)]
           /\ scan' = ScanFrom(scan.snapshot, scan.i + 1)
           /\ last' = Step("tick_resume", e.group_id, scan'.pc = "await", 0)
    /\ UNCHANGED <<consecutive_message_count, last_initiative_types,
                   last_initiative_messages, groups_received_initiative,
                   config, disk, hour, loops, ghosts, prompt>>

InitYield ==
    /\ group_records = EmptyDict
    /\ consecutive_message_count = EmptyDict
    /\ last_initiative_types = EmptyDict
    /\ last_initiative_messages = EmptyDict
    /\ groups_received_initiative = {}
    /\ whitelist_enabled = FALSE
    /\ time_limit_enabled = TRUE
    /\ tasks = EmptyBag
    /\ disk = <<>>
    /\ hour = activity_start_hour
    /\ last = Step("init", "none", FALSE, 0)
    /\ scheduled = [g \in Groups |-> 0]
    /\ order = <<>>
    /\ scanner = "running"
    /\ saver = "running"
    /\ io = "none"
    /\ seen = {}
    /\ generated = [g \in Groups |-> 0]
    /\ scan = Asleep
    /\ prompt = NoPrompt

MessageOfAnyGroup ==
    \E g \in Groups :
        \E u \in Origins(g) :
            on_group_message(g, CurrentConv(g), u, FALSE, "written") /\ UNCHANGED generated

\* Time passes within the hour the plugin was started in.
AdvanceWithinHour == Advance /\ hour' = hour

TickBegin == tick_begin

TickResume == tick_resume

NextYield ==
    \/ AdvanceWithinHour
    \/ MessageOfAnyGroup
    \/ TickBegin
    \/ TickResume
    \/ DispatchBegin
    \/ DispatchFinish

SpecYield == InitYield /\ [][NextYield]_vars

\* ------------------------------------------------------------------------
\* Properties
\* ------------------------------------------------------------------------
CountOf(g) == Get(consecutive_message_count, g, 0)

\* The spec's eligibility of a tracked group: whitelisted, below the maximum,
\* silent for the threshold.
Eligible(g) ==
    /\ g \in DOMAIN group_records
    /\ ~(whitelist_enabled /\ g \notin whitelist_groups)
    /\ CountOf(g) < max_consecutive_messages
    /\ Now - group_records[g].timestamp >= inactive_time_seconds

OutsideWindow ==
    time_limit_enabled /\ ~(activity_start_hour <= hour /\ hour < activity_end_hour)

RecordKept(g) ==
    g \in DOMAIN group_records =>
        g \in DOMAIN group_records' /\ group_records'[g] = group_records[g]

NothingScheduledFor(g) == NumTasksOf(tasks', g) = NumTasksOf(tasks, g)

\* C1: in every reachable state every group's consecutive_message_count, and
\* the count of its last_initiative_types entry, lies in
\* 0..max_consecutive_messages.
C1_CountWithinMax ==
    \A g \in Groups :
        /\ CountOf(g) \in 0..max_consecutive_messages
        /\ g \in DOMAIN last_initiative_types =>
               last_initiative_types[g].count \in 0..max_consecutive_messages

\* A dispatcher run for a group at the maximum has been stopped by the guard.
C1_Witness ==
    /\ last.op = "dispatch_abort"
    /\ last.flag
    /\ CountOf(last.group_id) = max_consecutive_messages
    /\ last.group_id \in DOMAIN last_initiative_types
    /\ last_initiative_types[last.group_id].count = max_consecutive_messages

\* C2: a scanner tick schedules no dispatch for a group whose count is at or
\* above the maximum and leaves its activity record in place.
C2_TerminalSkipped ==
    [][ \A g \in Groups :
            (last'.op = "tick" /\ CountOf(g) >= max_consecutive_messages)
                => (NothingScheduledFor(g) /\ RecordKept(g)) ]_vars

\* A tick inside the window has passed over a terminal group that is tracked,
\* whitelisted and silent for the threshold.
C2_Witness ==
    /\ last.op = "tick"
    /\ ~OutsideWindow
    /\ \E g \in DOMAIN group_records :
          /\ CountOf(g) >= max_consecutive_messages
          /\ ~(whitelist_enabled /\ g \notin whitelist_groups)
          /\ Now - group_records[g].timestamp >= inactive_time_seconds

\* C3: with the whitelist enabled, for a group outside it no tick schedules a
\* dispatch or touches its record, the scheduler holds no dispatch for it, and
\* a dispatcher step for it changes no store and never reaches generation.
C3_WhitelistExcludes ==
    [][ \A g \in Groups :
            (whitelist_enabled /\ g \notin whitelist_groups) =>
                /\ last'.op = "tick" => (NothingScheduledFor(g) /\ RecordKept(g))
                /\ NumTasksOf(tasks', g) = 0
                /\ (last'.group_id = g /\ last'.op \in {"dispatch_abort", "dispatch_begin",
                                                        "dispatch_finish"})
                      => (last'.op = "dispatch_abort" /\ stores' = stores /\ disk' = disk) ]_vars

\* A tick inside the window has passed over a group outside the whitelist that
\* is eligible by count and inactivity.
C3_Witness ==
    /\ last.op = "tick"
    /\ ~OutsideWindow
    /\ whitelist_enabled
    /\ \E g \in DOMAIN group_records :
          /\ g \notin whitelist_groups
          /\ CountOf(g) < max_consecutive_messages
          /\ Now - group_records[g].timestamp >= inactive_time_seconds

\* C4: a dispatcher run that completes its send leaves the count exactly one
\* above the value it held immediately before the commit.
C4_CommitIncrementsByOne ==
    (last.op = "dispatch_finish" /\ last.flag) => CountOf(last.group_id) = last.prev + 1

\* C5: after a message without the marker has been handled, the group's count
\* is 0 and so is the count of its last_initiative_types entry.
C5_ActivityZeroesCount ==
    (last.op = "message" /\ ~last.flag) =>
        /\ CountOf(last.group_id) = 0
        /\ last.group_id \in DOMAIN last_initiative_types =>
               last_initiative_types[last.group_id].count = 0

\* A genuine message has been handled for a group whose count was at the maximum.
C5_Witness ==
    /\ last.op = "message"
    /\ ~last.flag
    /\ last.prev = max_consecutive_messages
    /\ last.group_id \in DOMAIN last_initiative_types

\* C6: a message that carries the marker changes no store (and nothing else of
\* the program's state).
C6_MarkerIgnored ==
    [][ (last'.op = "message" /\ last'.flag) =>
            /\ stores' = stores
            /\ tasks' = tasks
            /\ disk' = disk ]_vars

\* A marked message has been handled for a group that awaits a reply with a
\* non-zero count and whose record is not of the present instant.
C6_Witness ==
    /\ last.op = "message"
    /\ last.flag
    /\ last.group_id \in groups_received_initiative
    /\ CountOf(last.group_id) > 0
    /\ last.group_id \in DOMAIN group_records
    /\ group_records[last.group_id].timestamp < Now

\* C7: when generate_and_send_message reports failure the dispatcher leaves the
\* group's count and tier metadata unchanged and does not re-create its record.
C7_FailureChangesNothing ==
    [][ (last'.op = "dispatch_finish" /\ ~last'.flag) =>
            /\ consecutive_message_count' = consecutive_message_count
            /\ last_initiative_types' = last_initiative_types
            /\ group_records' = group_records ]_vars

\* C8: with the time limit enabled a tick at an hour outside
\* [activity_start_hour, activity_end_hour) changes nothing, and a tick at
\* activity_start_hour schedules every eligible group.
C8_WindowHalfOpen ==
    [][ last'.op = "tick" =>
            /\ OutsideWindow => (stores' = stores /\ tasks' = tasks /\ disk' = disk)
            /\ hour = activity_start_hour =>
                   \A g \in Groups :
                       Eligible(g) => /\ g \notin DOMAIN group_records'
                                      /\ NumTasksOf(tasks', g) = NumTasksOf(tasks, g) + 1 ]_vars

\* A tick at activity_end_hour has left an eligible group untouched.
C8_Witness ==
    /\ last.op = "tick"
    /\ time_limit_enabled
    /\ hour = activity_end_hour
    /\ \E g \in Groups : Eligible(g)

\* C9: per written activity record the scanner schedules at most one dispatch.
C9_OneDispatchPerRecord == \A g \in Groups : scheduled[g] <= 1

\* A tick has scheduled the one dispatch of a record and removed the record.
C9_Witness ==
    /\ last.op = "tick"
    /\ \E g \in Groups :
          /\ scheduled[g] = 1
          /\ g \notin DOMAIN group_records
          /\ NumTasksOf(tasks, g) = 1

\* C10: a commit with next_count below the maximum leaves the group an activity
\* record of the present instant with the references the dispatch carried; a
\* commit with next_count at the maximum leaves the activity records unchanged.
C10_RearmBelowMax ==
    [][ last'.op = "dispatch_finish" =>
            \E t \in BagToSet(tasks) :
                /\ t.phase = "generate"
                /\ t.group_id = last'.group_id
                /\ tasks' = tasks (-) SetToBag({t})
                /\ t.next_count < max_consecutive_messages =>
                       /\ t.group_id \in DOMAIN group_records'
                       /\ group_records'[t.group_id] =
                              [timestamp |-> Now,
                               conversation_id |-> t.conversation_id,
                               unified_msg_origin |-> t.unified_msg_origin]
                /\ t.next_count = max_consecutive_messages =>
                       group_records' = group_records ]_vars

\* A commit at the maximum has left in place a record written before the
\* present instant.
C10_Witness ==
    /\ last.op = "dispatch_finish"
    /\ CountOf(last.group_id) = max_consecutive_messages
    /\ last.group_id \in DOMAIN group_records
    /\ group_records[last.group_id].timestamp < Now

\* C11: a dispatcher run with the input (group_id, conversation_id,
\* unified_msg_origin) of the run that has just succeeded for the group is
\* stopped by the count guard and changes no store.
C11_RerunIsNoOp ==
    [][ \A t \in BagToSet(tasks) :
            ( /\ last.op = "dispatch_finish"
              /\ last.flag
              /\ last.group_id = t.group_id
              /\ t.phase = "delay"
              /\ t.group_id \in DOMAIN last_initiative_messages
              /\ t.conversation_id = last_initiative_messages[t.group_id].conversation_id
              /\ t.unified_msg_origin = last_initiative_messages[t.group_id].unified_msg_origin
              /\ last'.op \in {"dispatch_begin", "dispatch_abort"}
              /\ last'.group_id = t.group_id
              /\ CopiesIn(t, tasks') = CopiesIn(t, tasks) - 1 )
            => (last'.op = "dispatch_abort" /\ stores' = stores) ]_vars

\* C20: after an inbound message without the marker has been handled, the
\* group has an activity record of the handling time with the conversation and
\* channel references of the event.
C20_MessageWritesRecord ==
    [][ (last'.op = "message" /\ ~last'.flag) =>
            \A c \in ConvIds(last'.group_id), u \in Origins(last'.group_id),
               o \in SaveOutcomes :
                on_group_message(last'.group_id, c, u, FALSE, o) =>
                    /\ last'.group_id \in DOMAIN group_records'
                    /\ group_records'[last'.group_id] =
                           [timestamp |-> Now, conversation_id |-> c,
                            unified_msg_origin |-> u] ]_vars

\* A genuine message has been handled for a group for which a dispatch waits
\* for its delay (the scanner had removed the group's record).
C20_Witness ==
    /\ last.op = "message"
    /\ ~last.flag
    /\ \E t \in BagToSet(tasks) : t.group_id = last.group_id /\ t.phase = "delay"
    /\ last.group_id \in DOMAIN group_records
    /\ group_records[last.group_id].timestamp = Now

\* C16: a tracked group that passes the whitelist and receives no further
\* genuine message reaches max_consecutive_messages, when in-window ticks keep
\* occurring and every scheduled dispatch is run (FairSpec).
C16_ReachesMax ==
    \A g \in Groups :
        (g \in DOMAIN group_records /\ ScannerPassesWhitelist(g))
            ~> \/ CountOf(g) = max_consecutive_messages
               \/ (last.op = "message" /\ ~last.flag /\ last.group_id = g)

\* The last dispatch of an escalation has committed the maximum, two ticks
\* and two dispatches after the group went silent.
C16_Witness ==
    /\ last.op = "dispatch_finish"
    /\ last.prev = max_consecutive_messages - 1
    /\ CountOf(last.group_id) = max_consecutive_messages
    /\ last.group_id \notin DOMAIN group_records
    /\ tasks = EmptyBag

C13_RestartKeepsScheduled ==
    [][ (last'.op = "restart" /\ LoadApplies(disk)) =>
            \A t \in BagToSet(tasks) :
                t.phase = "delay" => t.group_id \in DOMAIN group_records' ]_vars

\* C18: a step whose save fails leaves the loops as they were and the stores
\* as the step set them: the periodic save changes no store and its loop goes
\* on, a reset leaves the count at 0 and the record written, a dispatcher
\* commit leaves the count and the tier metadata at next_count.
C18_SaveFailureKeepsMemory ==
    [][ io' = "save_failed" =>
            /\ loops' = loops
            /\ last'.op \in {"periodic_save", "message", "dispatch_finish"}
            /\ last'.op = "periodic_save" => (stores' = stores /\ tasks' = tasks)
            /\ last'.op = "message" =>
                   /\ Get(consecutive_message_count', last'.group_id, 1) = 0
                   /\ last'.group_id \notin groups_received_initiative'
                   /\ last'.group_id \in DOMAIN group_records'
                   /\ group_records'[last'.group_id].timestamp = Now
            /\ last'.op = "dispatch_finish" =>
                   \E t \in BagToSet(tasks) :
                       /\ t.phase = "generate"
                       /\ t.group_id = last'.group_id
                       /\ tasks' = tasks (-) SetToBag({t})
                       /\ Get(consecutive_message_count', t.group_id, 0) = t.next_count
                       /\ t.group_id \in DOMAIN last_initiative_types'
                       /\ last_initiative_types'[t.group_id].count = t.next_count
                       /\ t.group_id \in groups_received_initiative' ]_vars

\* The save of a dispatcher commit has failed after the file was opened: the
\* commit is in memory and the file is not a snapshot.
C18_Witness ==
    /\ io = "save_failed"
    /\ last.op = "dispatch_finish"
    /\ CountOf(last.group_id) = last.prev + 1
    /\ disk = <<TornFile>>
    /\ saver = "running"

\* C19: when load_data_from_storage fails, no part of the snapshot is applied:
\* all stores are in their empty initial state.
C19_FailedLoadAppliesNothing ==
    (last.op = "restart" /\ io = "load_failed") =>
        /\ group_records = EmptyDict
        /\ consecutive_message_count = EmptyDict
        /\ last_initiative_types = EmptyDict
        /\ last_initiative_messages = EmptyDict
        /\ groups_received_initiative = {}

\* C14: no exception raised while a tick is processed ends the scanner loop.
C14_ScannerSurvivesError == scanner # "failed"

\* C15: a tick inside the window schedules every group of its snapshot that
\* is eligible and whose own evaluation raises nothing, whatever the
\* evaluation of another group of the snapshot raises.
C15_ErrorSkipsOneGroup ==
    [][ (last'.op = "tick" /\ InActivityWindow(hour)) =>
            \A g \in Groups :
                (ShouldSchedule(g) /\ ~Raises(g)) =>
                    /\ g \notin DOMAIN group_records'
                    /\ NumTasksOf(tasks', g) = NumTasksOf(tasks, g) + 1 ]_vars

\* C17: stop_checking_inactive_conversations ends a running scanner as
\* cancelled, not as failed, and from then on no tick occurs: no dispatch is
\* scheduled and no activity record removed.
C17_StoppedScannerIdle ==
    [][ /\ (last'.op = "terminate" /\ scanner = "running") => scanner' = "cancelled"
        /\ scanner = "cancelled" =>
               /\ scanner' = "cancelled"
               /\ last'.op # "tick"
               /\ DOMAIN group_records \subseteq DOMAIN group_records'
               /\ \A t \in BagToSet(tasks') :
                      t.phase = "delay" => CopiesIn(t, tasks') <= CopiesIn(t, tasks) ]_vars

\* Time has passed since the shutdown and, inside the window, an eligible
\* group is left with its record and without a dispatch.
C17_Witness ==
    /\ scanner = "cancelled"
    /\ saver = "cancelled"
    /\ last.op = "advance"
    /\ InActivityWindow(hour)
    /\ \E g \in Groups :
          /\ ShouldSchedule(g)
          /\ ~Raises(g)
          /\ CountOf(g) > 0
          /\ NumTasksOf(tasks, g) = 0

\* C21: a count that equals max_consecutive_messages becomes lower only in a
\* step that handles a genuine message of that group: no dispatcher commit
\* and no scanner tick lowers it.
C21_OnlyActivityLowersCount ==
    [][ \A g \in Groups :
            (CountOf(g) = max_consecutive_messages
                /\ Get(consecutive_message_count', g, 0) < max_consecutive_messages)
                => (last'.op = "message" /\ ~last'.flag /\ last'.group_id = g) ]_vars

\* C24: a dispatcher run that finds the group's current count at
\* max_consecutive_messages ends without invoking message generation and
\* changes no store: counts, tier metadata, activity records, last outreach
\* messages, the groups_received_initiative set, and the snapshot file.
C24_DispatchAtMaxIsNoOp ==
    [][ \A g \in Groups :
            (/\ last'.op \in {"dispatch_abort", "dispatch_begin"}
             /\ last'.group_id = g
             /\ CurrentCount(g) = max_consecutive_messages)
                => /\ last'.op = "dispatch_abort"
                   /\ \A t \in BagToSet(tasks') :
                          t.phase = "generate" => CopiesIn(t, tasks') <= CopiesIn(t, tasks)
                   /\ UNCHANGED <<stores, order, disk>> ]_vars

\* The last dispatch held for a group was stopped at the maximum: the group
\* is terminal, without a record and without a dispatch.
C24_Witness ==
    /\ last.op = "dispatch_abort"
    /\ last.flag
    /\ CurrentCount(last.group_id) = max_consecutive_messages
    /\ last.prev = max_consecutive_messages
    /\ last.group_id \in groups_received_initiative
    /\ last.group_id \notin DOMAIN group_records
    /\ NumTasksOf(tasks, last.group_id) = 0

\* The count fields of a last_initiative_types store, in memory or as saved.
TypeCounts(types) == [g \in DOMAIN types |-> types[g].count]

\* The escalation counts of the snapshot file; none while no file exists.
DiskCounts ==
    IF disk = <<>> THEN [cmc |-> EmptyDict, types |-> EmptyDict]
    ELSE [cmc |-> disk[1].consecutive_message_count,
          types |-> TypeCounts(disk[1].last_initiative_types)]

\* C25: while every save succeeds, between any two handlers the escalation
\* counts of the snapshot file equal consecutive_message_count and the counts
\* of last_initiative_types in memory: every dispatcher commit and every
\* counter reset is saved before its handler yields.
C25_DiskCountsCurrent ==
    /\ DiskCounts.cmc = consecutive_message_count
    /\ DiskCounts.types = TypeCounts(last_initiative_types)

\* A counter reset has been saved: memory and file both hold count 0 for a
\* group that had been contacted.
C25_Witness ==
    /\ last.op = "message"
    /\ ~last.flag
    /\ last.prev > 0
    /\ io = "saved"
    /\ disk # <<>>
    /\ disk[1].consecutive_message_count[last.group_id] = 0
    /\ disk[1].last_initiative_types[last.group_id].count = 0
    /\ CountOf(last.group_id) = 0

\* C30: from empty stores, a group whose consecutive_message_count is above 0
\* is in groups_received_initiative, so the next genuine message of the group
\* takes the reset branch.
C30_PositiveCountIsMarked ==
    \A g \in Groups : CountOf(g) > 0 => g \in groups_received_initiative

\* A genuine message of a group with a positive count below the maximum has
\* taken the reset branch: the count is 0 and the mark is removed.
C30_Witness ==
    /\ last.op = "message"
    /\ ~last.flag
    /\ last.prev > 0
    /\ last.prev < max_consecutive_messages
    /\ CountOf(last.group_id) = 0
    /\ last.group_id \notin groups_received_initiative
    /\ last.group_id \in DOMAIN consecutive_message_count

\* The tick has scheduled one dispatch for g that carries the references of
\* g's activity record.
ScheduledFromRecord(g) ==
    \E t \in BagToSet(tasks') :
        /\ t.group_id = g
        /\ t.phase = "delay"
        /\ t.conversation_id = group_records[g].conversation_id
        /\ t.unified_msg_origin = group_records[g].unified_msg_origin
        /\ CopiesIn(t, tasks') = CopiesIn(t, tasks) + 1
        /\ NumTasksOf(tasks', g) = NumTasksOf(tasks, g) + 1

EscalationStateKept(g) ==
    /\ Get(consecutive_message_count', g, 0) = Get(consecutive_message_count, g, 0)
    /\ (g \in DOMAIN last_initiative_types') = (g \in DOMAIN last_initiative_types)
    /\ g \in DOMAIN last_initiative_types =>
           last_initiative_types'[g] = last_initiative_types[g]
    /\ (g \in groups_received_initiative') = (g \in groups_received_initiative)

\* An activity record with the three fields the code writes.
HasReferences(record) ==
    {"timestamp", "conversation_id", "unified_msg_origin"} \subseteq DOMAIN record

\* C23: in a tick inside the activity window, for every group of the snapshot
\* (whose record carries a timestamp and the two references) a dispatch
\* carrying the references of its record is scheduled and its record removed
\* if and only if the group passes the whitelist, its count is below
\* max_consecutive_messages and it has been silent for
\* inactive_time_seconds; otherwise its record and its escalation state are
\* left as they are and nothing is scheduled for it.
C23_TickSchedulesExactlyEligible ==
    [][ (last'.op = "tick" /\ InActivityWindow(hour)) =>
            \A g \in { x \in DOMAIN group_records : HasReferences(group_records[x]) } :
                IF Eligible(g)
                THEN ScheduledFromRecord(g) /\ g \notin DOMAIN group_records'
                ELSE /\ NothingScheduledFor(g)
                     /\ RecordKept(g)
                     /\ EscalationStateKept(g) ]_vars

\* C28: the dispatcher does not go on to message generation for a group
\* whose last genuine message is less than inactive_time_seconds old: when a
\* genuine message of the group has just been handled (its record is fresh)
\* and no time has passed, a held dispatch of the group that runs ends
\* without generating.
C28_NoDispatchAfterFreshActivity ==
    [][ \A g \in Groups :
            (/\ last.op = "message"
             /\ ~last.flag
             /\ last.group_id = g
             /\ g \in DOMAIN group_records
             /\ Now - group_records[g].timestamp < inactive_time_seconds
             /\ last'.group_id = g)
                => last'.op # "dispatch_begin" ]_vars

\* C29: without restart or shutdown, every group whose genuine message has
\* been handled and whose count is below max_consecutive_messages has an
\* activity record or a dispatch held by the scheduler (waiting for its
\* delay or suspended in message generation).
C29_NonTerminalIsMonitored ==
    \A g \in seen :
        CountOf(g) < max_consecutive_messages =>
            (g \in DOMAIN group_records \/ NumTasksOf(tasks, g) > 0)

\* A dispatch whose message generation failed has ended below the maximum:
\* no dispatch is left for the group and its record is in place again.
C29_Witness ==
    /\ last.op = "dispatch_finish"
    /\ ~last.flag
    /\ last.group_id \in seen
    /\ CountOf(last.group_id) < max_consecutive_messages
    /\ NumTasksOf(tasks, last.group_id) = 0
    /\ last.group_id \in DOMAIN group_records

\* C27: between two consecutive genuine messages of a group (or from the
\* start with empty stores to the first one) the dispatcher goes on to
\* message generation for the group at most max_consecutive_messages times,
\* however the dispatches scheduled for the group interleave.
C27_AtMostMaxGenerations ==
    \A g \in Groups : generated[g] <= max_consecutive_messages

\* The bucket of next_count when the final tier is tested first.
FinalFirstBucket(next_count, max) ==
    IF next_count = max THEN 8..9
    ELSE IF next_count = 1 THEN 0..3
    ELSE IF next_count = 2 THEN 4..5
    ELSE 6..7

\* C26: for every max_consecutive_messages >= 1 and every next_count in
\* 1..max_consecutive_messages the selected prompt index lies in indices 8-9
\* when next_count = max_consecutive_messages, otherwise in 0-3 when
\* next_count = 1, in 4-5 when next_count = 2, and in 6-7 for all other values.
C26_PromptBucket ==
    prompt.index # -1 =>
        prompt.index \in FinalFirstBucket(prompt.next_count, prompt.max)

C31_TypeCountMatchesCount ==
    \A g \in Groups :
        /\ g \in DOMAIN last_initiative_types =>
               /\ g \in DOMAIN consecutive_message_count
               /\ last_initiative_types[g].count = consecutive_message_count[g]
        /\ CurrentCount(g) = Get(consecutive_message_count, g, 0)

\* A dispatcher has committed a count that is not above the one it replaced
\* (a commit by a dispatch that read the count before a later commit or
\* before a reset), and the group has an entry with a positive count.
C31_Witness ==
    /\ last.op = "dispatch_finish"
    /\ last.group_id \in DOMAIN last_initiative_types
    /\ last_initiative_types[last.group_id].count > 0
    /\ last.prev >= last_initiative_types[last.group_id].count

====
